---- MODULE Spec2Model ----
(***************************************************************************)
(* A model of postalclient-go: the Client, its transport wrapper           *)
(* (Client.do / Client.post) and the four endpoint methods (SendMessage,   *)
(* SendRaw, GetMessage, GetMessageDeliveries), together with the part of   *)
(* encoding/json the wrapper relies on (how a response body decodes into   *)
(* Response, Error and the typed results).                                 *)
(***************************************************************************)
EXTENDS Integers, Sequences, FiniteSets, TLC

VARIABLES client, calls, earlier

vars == <<client, calls, earlier>>

(***************************************************************************)
(* Bounds of the model.                                                    *)
(***************************************************************************)
\* longest "data" array a server response carries
MaxDeliveries == 2

(***************************************************************************)
(* Program constants.                                                      *)
(***************************************************************************)
DefaultBaseURL == "https://postal.example.com/api/v1"
\* seconds
DefaultTimeout == 30
StatusOK == 200
MethodPost == "POST"

(***************************************************************************)
(* JSON values as they appear in a body.  A scalar is a tagged record      *)
(* [k, n, s]: k is the JSON kind, n the number, s the string.              *)
(***************************************************************************)
JV(k, n, s) == [k |-> k, n |-> n, s |-> s]
\* the key is not present in the object
Absent == JV("absent", 0, "")
JNull == JV("null", 0, "")
JNum(n) == JV("num", n, "")
\* a number with a fractional part; n counts thousandths (0.123 is JFrac(123))
JFrac(n) == JV("frac", n, "")
JStr(s) == JV("str", 0, s)
JBool(b) == JV("bool", IF b THEN 1 ELSE 0, "")
\* a nested JSON object whose members the client never reads, e.g. {}
JObject == JV("obj", 0, "")

(***************************************************************************)
(* encoding/json decoding of one object member into a Go field of a given  *)
(* type: an absent key and a JSON null leave the zero value, a value of    *)
(* the field's kind is stored, anything else is an UnmarshalTypeError.     *)
(***************************************************************************)
FieldOK(v, kinds) == v.k \in ({"absent", "null"} \cup kinds)

\* an int field (`json:"id"`, `json:"message_id"`): 1.5 does not fit an int
IntField(v) == IF v.k = "num" THEN v.n ELSE 0
IntFieldOK(v) == FieldOK(v, {"num"})

\* a string field
StringField(v) == IF v.k = "str" THEN v.s ELSE ""
StringFieldOK(v) == FieldOK(v, {"str"})

\* a bool field
BoolField(v) == v.k = "bool" /\ v.n = 1
BoolFieldOK(v) == FieldOK(v, {"bool"})

\* a float64 field, kept in thousandths
FloatField(v) == IF v.k = "num" THEN v.n * 1000 ELSE IF v.k = "frac" THEN v.n ELSE 0
FloatFieldOK(v) == FieldOK(v, {"num", "frac"})

\* a plausible change: a JSON null is dropped, as a pointer field would do
RawField_NullIsNil(v) == IF v.k = "null" THEN [v EXCEPT !.k = "absent"] ELSE v

\* a json.RawMessage field keeps the member's bytes undecoded, a JSON null
\* included; only an absent key leaves it nil
RawField(v) == v

\* a pointer-to-struct field (*MessageStatus): nil unless the member is an object
PtrStructField(v) == IF v.k = "obj" THEN "set" ELSE "nil"
PtrStructFieldOK(v) == FieldOK(v, {"obj"})

(***************************************************************************)
(* The "data" member of an envelope.  A payload is [k, f, a]: k its JSON   *)
(* kind, f the members of an object the typed results read, a the elements *)
(* of an array.  An array element is [k, f].                               *)
(***************************************************************************)
Fields(message_id, id, token, status, ssl) ==
    [message_id |-> message_id, id |-> id, token |-> token, status |-> status,
     sent_with_ssl |-> ssl]
NoFields == Fields(Absent, Absent, Absent, Absent, Absent)

Elem(k, f) == [k |-> k, f |-> f]
Payload(k, f, a) == [k |-> k, f |-> f, a |-> a]
\* the envelope has no "data" member: Response.Data stays a nil RawMessage
NoData == Payload("absent", NoFields, <<>>)
NullData == Payload("null", NoFields, <<>>)
StringData == Payload("str", NoFields, <<>>)
ObjectData(f) == Payload("obj", f, <<>>)
ArrayData(a) == Payload("arr", NoFields, a)

(***************************************************************************)
(* The typed results of models/ and json.Unmarshal of a payload into each. *)
(***************************************************************************)
SendMessageResponse(id, token) == [MessageID |-> id, Token |-> token]
Message(id, token, status) == [ID |-> id, Token |-> token, Status |-> status]
Delivery(id, status, ssl) == [ID |-> id, Status |-> status, SentWithSSL |-> ssl]

\* decoding an object (or a null, which leaves the zero value) into a struct
SendMessageResponseOK(f) == IntFieldOK(f.message_id) /\ StringFieldOK(f.token)
\* a plausible slip: the struct tag of MessageID names "id"
DecodeSendMessageResponse_WrongTag(f) ==
    SendMessageResponse(IntField(f.id), StringField(f.token))

DecodeSendMessageResponse(f) ==
    SendMessageResponse(IntField(f.message_id), StringField(f.token))

MessageOK(f) ==
    IntFieldOK(f.id) /\ StringFieldOK(f.token) /\ PtrStructFieldOK(f.status)
DecodeMessage(f) ==
    Message(IntField(f.id), StringField(f.token), PtrStructField(f.status))

DeliveryOK(f) ==
    IntFieldOK(f.id) /\ StringFieldOK(f.status) /\ BoolFieldOK(f.sent_with_ssl)
DecodeDelivery(f) ==
    Delivery(IntField(f.id), StringField(f.status), BoolField(f.sent_with_ssl))

\* a plausible change: a missing data member is skipped like a null one
StructOK_MissingIsNull(d, fieldsOK) ==
    d.k \in {"null", "absent"} \/ (d.k = "obj" /\ fieldsOK)

\* json.Unmarshal(data, &struct): nil/empty input is "unexpected end of JSON
\* input", null is a no-op, an object fills the fields, any other kind is a
\* type error
StructOK(d, fieldsOK) == d.k = "null" \/ (d.k = "obj" /\ fieldsOK)
StructFields(d) == IF d.k = "obj" THEN d.f ELSE NoFields

UnmarshalSendMessageResponse(d) ==
    [ok |-> StructOK(d, SendMessageResponseOK(d.f)),
     v  |-> DecodeSendMessageResponse(StructFields(d))]
UnmarshalMessage(d) ==
    [ok |-> StructOK(d, MessageOK(d.f)), v |-> DecodeMessage(StructFields(d))]

\* json.Unmarshal(data, &[]Delivery): null leaves the nil slice, an array gives
\* one element per array element, in order (a null element is the zero value)
\* a plausible slip: the elements are collected back to front
UnmarshalDeliveries_Reversed(d) ==
    [ok |-> d.k = "null" \/ (d.k = "arr" /\ \A i \in 1..Len(d.a) :
                d.a[i].k = "null" \/ (d.a[i].k = "obj" /\ DeliveryOK(d.a[i].f))),
     v  |-> [isNil |-> d.k # "arr",
             elems |-> IF d.k = "arr"
                       THEN [i \in 1..Len(d.a) |->
                               LET e == d.a[Len(d.a) + 1 - i]
                               IN  IF e.k = "obj" THEN DecodeDelivery(e.f)
                                   ELSE DecodeDelivery(NoFields)]
                       ELSE <<>>]]

ElemOK(e) == e.k = "null" \/ (e.k = "obj" /\ DeliveryOK(e.f))
DecodeElem(e) == IF e.k = "obj" THEN DecodeDelivery(e.f) ELSE DecodeDelivery(NoFields)
UnmarshalDeliveries(d) ==
    [ok |-> d.k = "null" \/ (d.k = "arr" /\ \A i \in 1..Len(d.a) : ElemOK(d.a[i])),
     v  |-> [isNil |-> d.k # "arr",
             elems |-> IF d.k = "arr" THEN [i \in 1..Len(d.a) |-> DecodeElem(d.a[i])]
                       ELSE <<>>]]

(***************************************************************************)
(* A response body as read from the wire: [syn, status, time, flags, data, *)
(* error_code, message].  syn is "object" for a JSON object, "null" for    *)
(* the literal null, "array" for any other valid JSON, "invalid" for bytes *)
(* that are not JSON (the members then say what the readable prefix held). *)
(***************************************************************************)
Body(syn, status, time, flags, data, code, message) ==
    [syn |-> syn, status |-> status, time |-> time, flags |-> flags, data |-> data,
     error_code |-> code, message |-> message]

\* the Response struct and json.Unmarshal(respBody, &apiResp)
Response(status, time, flags, data) ==
    [Status |-> status, Time |-> time, Flags |-> flags, Data |-> data]
ResponseOK(b) ==
    b.syn = "null" \/ (b.syn = "object" /\ StringFieldOK(b.status) /\ FloatFieldOK(b.time))
UnmarshalResponse(b) ==
    [ok |-> ResponseOK(b),
     v  |-> IF b.syn = "object"
            THEN Response(StringField(b.status), FloatField(b.time), RawField(b.flags),
                          RawField(b.data))
            ELSE Response("", 0, Absent, NoData)]

\* the Error struct and json.Unmarshal(respBody, &apiError)
Error(status, time, flags, data, code, message) ==
    [k |-> "api", Status |-> status, Time |-> time, Flags |-> flags, Data |-> data,
     ErrorCode |-> code, Message |-> message]
ErrorOK(b) ==
    b.syn = "null" \/
    (b.syn = "object" /\ StringFieldOK(b.status) /\ FloatFieldOK(b.time) /\
     StringFieldOK(b.error_code) /\ StringFieldOK(b.message))
UnmarshalError(b) ==
    [ok |-> ErrorOK(b),
     v  |-> IF b.syn = "object"
            THEN Error(StringField(b.status), FloatField(b.time), RawField(b.flags),
                       RawField(b.data), StringField(b.error_code),
                       StringField(b.message))
            ELSE Error("", 0, Absent, NoData, "", "")]

\* a plausible change: the error code is made part of the text
ErrorString_WithErrorCode(e) ==
    "postal API error: " \o e.Status \o " (" \o e.ErrorCode \o ") - " \o e.Message

\* Error.Error()
ErrorString(e) == "postal API error: " \o e.Status \o " - " \o e.Message

(***************************************************************************)
(* Errors a call returns: nil, a generic error made by fmt.Errorf (text is *)
(* the format's prefix followed by the wrapped cause), or a *Error.        *)
(***************************************************************************)
NilError == [k |-> "nil"]
\* a plausible slip: the cause is returned as it is, without the stage
Errorf_CauseOnly(prefix, cause) == [k |-> "generic", text |-> cause]

Errorf(prefix, cause) == [k |-> "generic", text |-> prefix \o ": " \o cause]

(***************************************************************************)
(* Request values the caller builds (models.SendMessageRequest,            *)
(* models.SendRawRequest) and json.Marshal of each.  A Go slice is         *)
(* [isNil, elems]; a marshalled body is [k |-> "null"] or an object        *)
(* [k |-> "obj", m |-> members], m a function from the keys written to     *)
(* their JSON values.                                                      *)
(***************************************************************************)
GoSlice(isNil, elems) == [isNil |-> isNil, elems |-> elems]
NilSlice == GoSlice(TRUE, <<>>)
Slice(elems) == GoSlice(FALSE, elems)

JList(l) == [k |-> "list", l |-> l]
\* a slice marshals as null when nil and as an array otherwise
SliceJSON(sl) == IF sl.isNil THEN JNull ELSE JList(sl.elems)

\* one member of a marshalled object; `omitempty` drops an empty value
Member(key, v) == key :> v
OmitEmpty(key, empty, v) == IF empty THEN <<>> ELSE key :> v
SliceEmpty(sl) == Len(sl.elems) = 0

JSONNull == [k |-> "null"]
JSONObject(m) == [k |-> "obj", m |-> m]

\* a plausible slip: the struct tag of PlainBody names "body"
MarshalSendMessageRequest_BodyTag(r) ==
    JSONObject(
        Member("to", SliceJSON(r.To)) @@
        OmitEmpty("cc", SliceEmpty(r.CC), SliceJSON(r.CC)) @@
        OmitEmpty("bcc", SliceEmpty(r.BCC), SliceJSON(r.BCC)) @@
        Member("from", JStr(r.From)) @@
        OmitEmpty("sender", r.Sender = "", JStr(r.Sender)) @@
        Member("subject", JStr(r.Subject)) @@
        OmitEmpty("tag", r.Tag = "", JStr(r.Tag)) @@
        OmitEmpty("reply_to", r.ReplyTo = "", JStr(r.ReplyTo)) @@
        OmitEmpty("body", r.PlainBody = "", JStr(r.PlainBody)) @@
        OmitEmpty("html_body", r.HTMLBody = "", JStr(r.HTMLBody)) @@
        OmitEmpty("attachments", SliceEmpty(r.Attachments), SliceJSON(r.Attachments)) @@
        OmitEmpty("headers", SliceEmpty(r.Headers), SliceJSON(r.Headers)) @@
        OmitEmpty("bounce", ~r.Bounce, JBool(r.Bounce)))

MarshalSendMessageRequest(r) ==
    JSONObject(
        Member("to", SliceJSON(r.To)) @@
        OmitEmpty("cc", SliceEmpty(r.CC), SliceJSON(r.CC)) @@
        OmitEmpty("bcc", SliceEmpty(r.BCC), SliceJSON(r.BCC)) @@
        Member("from", JStr(r.From)) @@
        OmitEmpty("sender", r.Sender = "", JStr(r.Sender)) @@
        Member("subject", JStr(r.Subject)) @@
        OmitEmpty("tag", r.Tag = "", JStr(r.Tag)) @@
        OmitEmpty("reply_to", r.ReplyTo = "", JStr(r.ReplyTo)) @@
        OmitEmpty("plain_body", r.PlainBody = "", JStr(r.PlainBody)) @@
        OmitEmpty("html_body", r.HTMLBody = "", JStr(r.HTMLBody)) @@
        OmitEmpty("attachments", SliceEmpty(r.Attachments), SliceJSON(r.Attachments)) @@
        OmitEmpty("headers", SliceEmpty(r.Headers), SliceJSON(r.Headers)) @@
        OmitEmpty("bounce", ~r.Bounce, JBool(r.Bounce)))

MarshalSendRawRequest(r) ==
    JSONObject(
        Member("mail_from", JStr(r.MailFrom)) @@
        Member("rcpt_to", SliceJSON(r.RcptTo)) @@
        Member("data", JStr(r.Data)) @@
        OmitEmpty("bounce", ~r.Bounce, JBool(r.Bounce)))

\* the server decoding a request body into the request type
\* (json.NewDecoder(r.Body).Decode(&req)): a member that is missing or null
\* leaves the field's zero value
HasMember(j, key) == j.k = "obj" /\ key \in DOMAIN j.m
SliceMember(j, key) ==
    IF HasMember(j, key) /\ j.m[key].k = "list" THEN Slice(j.m[key].l) ELSE NilSlice
StringMember(j, key) ==
    IF HasMember(j, key) /\ j.m[key].k = "str" THEN j.m[key].s ELSE ""
BoolMember(j, key) ==
    HasMember(j, key) /\ j.m[key].k = "bool" /\ j.m[key].n = 1
UnmarshalSendMessageRequest(j) ==
    [To |-> SliceMember(j, "to"), CC |-> SliceMember(j, "cc"),
     BCC |-> SliceMember(j, "bcc"), From |-> StringMember(j, "from"),
     Sender |-> StringMember(j, "sender"), Subject |-> StringMember(j, "subject"),
     Tag |-> StringMember(j, "tag"), ReplyTo |-> StringMember(j, "reply_to"),
     PlainBody |-> StringMember(j, "plain_body"),
     HTMLBody |-> StringMember(j, "html_body"),
     Attachments |-> SliceMember(j, "attachments"),
     Headers |-> SliceMember(j, "headers"), Bounce |-> BoolMember(j, "bounce")]
UnmarshalSendRawRequest(j) ==
    [MailFrom |-> StringMember(j, "mail_from"), RcptTo |-> SliceMember(j, "rcpt_to"),
     Data |-> StringMember(j, "data"), Bounce |-> BoolMember(j, "bounce")]

(***************************************************************************)
(* The body argument of post/do, an interface{}: [k, v].                   *)
(*   "nil"      the nil interface (post(path, nil))                        *)
(*   "nilptr"   a nil *SendMessageRequest or *SendRawRequest               *)
(*   "send"     a *SendMessageRequest                                      *)
(*   "raw"      a *SendRawRequest                                          *)
(*   "id"       map[string]interface{}{"id": v}                            *)
(*   "map"      map[string]string{"test": v}                               *)
(*   "chan"     a struct holding a channel, which json.Marshal rejects     *)
(***************************************************************************)
BodyArg(k, v) == [k |-> k, v |-> v]
NilBody == BodyArg("nil", 0)

\* json.Marshal(body): [ok, json]
Marshal(body) ==
    [ok   |-> body.k # "chan",
     json |-> CASE body.k = "send" -> MarshalSendMessageRequest(body.v)
                [] body.k = "raw"  -> MarshalSendRawRequest(body.v)
                [] body.k = "id"   -> JSONObject(Member("id", JNum(body.v)))
                [] body.k = "map"  -> JSONObject(Member("test", JStr(body.v)))
                [] OTHER           -> JSONNull]

(***************************************************************************)
(* http.NewRequest and the request Client.do builds.                       *)
(***************************************************************************)
\* a base URL url.Parse rejects (a control character in the host)
InvalidBaseURL == "http://invalid-url-with-DEL-character"
Paths == {"/send/message", "/send/raw", "/messages/message", "/messages/deliveries",
          "/test"}
\* http.NewRequest succeeds when the method is a valid token and the URL parses
ValidMethods == {"GET", "POST", "PUT", "DELETE"}
NewRequestOK(method, url) ==
    method \in ValidMethods /\ url \notin {InvalidBaseURL \o p : p \in Paths}

NoRequest == [Method |-> "", URL |-> "", Header |-> <<>>, Body |-> [k |-> "none"]]
\* a plausible slip: the API key header is never set
SetHeaders_NoKey(apiKey) ==
    [ContentType |-> "application/json", Accept |-> "application/json",
     XServerAPIKey |-> ""]

\* req.Header.Set(...) x 3
SetHeaders(apiKey) ==
    [ContentType |-> "application/json", Accept |-> "application/json",
     XServerAPIKey |-> apiKey]

\* a plausible slip: the URL is built from the constant, not from the field
RequestURL_FromDefault(baseURL, path) == DefaultBaseURL \o path

\* fmt.Sprintf("%s%s", c.BaseURL, path)
RequestURL(baseURL, path) == baseURL \o path

\* a plausible change: the key is also sent as a query parameter
doPrepare_KeyInQuery(cl, method, path, body) ==
    LET url == RequestURL(cl.BaseURL, path)
        m   == Marshal(body)
    IN  IF body.k # "nil" /\ ~m.ok
        THEN [err |-> Errorf("error marshaling request body", "json: unsupported type: chan int"),
              req |-> NoRequest]
        ELSE IF ~NewRequestOK(method, url)
        THEN [err |-> Errorf("error creating request", "net/url: invalid control character in URL"),
              req |-> NoRequest]
        ELSE [err |-> NilError,
              req |-> [Method |-> method, URL |-> url \o "?api_key=" \o cl.APIKey,
                       Header |-> SetHeaders(cl.APIKey),
                       Body |-> IF body.k = "nil" THEN [k |-> "none"] ELSE m.json]]

\* Client.do up to the call of c.HTTPClient.Do: [err, req]
doPrepare(cl, method, path, body) ==
    LET url == RequestURL(cl.BaseURL, path)
        m   == Marshal(body)
    IN  IF body.k # "nil" /\ ~m.ok
        THEN [err |-> Errorf("error marshaling request body", "json: unsupported type: chan int"),
              req |-> NoRequest]
        ELSE IF ~NewRequestOK(method, url)
        THEN [err |-> Errorf("error creating request", "net/url: invalid control character in URL"),
              req |-> NoRequest]
        ELSE [err |-> NilError,
              req |-> [Method |-> method, URL |-> url, Header |-> SetHeaders(cl.APIKey),
                       Body |-> IF body.k = "nil" THEN [k |-> "none"] ELSE m.json]]

(***************************************************************************)
(* Client.do after the body was read: the HTTP status, the envelope and    *)
(* its status member decide between a *Response and an error.              *)
(***************************************************************************)
NilResponse == [k |-> "nil"]
\* a plausible slip: only 5xx statuses are taken for errors
IsHTTPError_Only5xx(code) == code >= 500

\* a plausible change: every 2xx status is taken for a success
IsHTTPError_Outside2xx(code) == code < 200 \/ code >= 300

\* resp.StatusCode != http.StatusOK
IsHTTPError(code) == code # StatusOK
\* a plausible slip: only the status "error" is taken for an API error
IsAPIError_OnlyError(status) == status = "error"

\* a plausible change: the status is compared without regard to case
IsAPIError_IgnoringCase(status) == status \notin {"success", "Success", "SUCCESS"}

\* apiResp.Status != "success"
IsAPIError(status) == status # "success"

\* a plausible slip: the error of json.Unmarshal is dropped and the Error, filled
\* or not, is returned
doErrorBranch_IgnoresUnmarshalError(body) ==
    [resp |-> NilResponse, err |-> UnmarshalError(body).v]

\* both error branches: parse the body as an Error and return it
doErrorBranch(body) ==
    LET e == UnmarshalError(body)
    IN  IF ~e.ok
        THEN [resp |-> NilResponse,
              err |-> Errorf("error unmarshaling error response", "json: cannot unmarshal")]
        ELSE [resp |-> NilResponse, err |-> e.v]

\* a plausible slip: the status is looked for in the body before the body is
\* parsed, and a body that does not say "success" is taken for an error envelope
doParse_StatusBeforeParse(code, body) ==
    IF IsHTTPError(code) \/ body.status # JStr("success") THEN doErrorBranch(body)
    ELSE LET r == UnmarshalResponse(body)
         IN  IF ~r.ok
             THEN [resp |-> NilResponse,
                   err |-> Errorf("error unmarshaling response", "json: cannot unmarshal")]
             ELSE [resp |-> [k |-> "Response", v |-> r.v], err |-> NilError]

doParse(code, body) ==
    IF IsHTTPError(code) THEN doErrorBranch(body)
    ELSE LET r == UnmarshalResponse(body)
         IN  IF ~r.ok
             THEN [resp |-> NilResponse,
                   err |-> Errorf("error unmarshaling response", "json: cannot unmarshal")]
             ELSE IF IsAPIError(r.v.Status) THEN doErrorBranch(body)
             ELSE [resp |-> [k |-> "Response", v |-> r.v], err |-> NilError]

(***************************************************************************)
(* The endpoint methods: each posts to its fixed path and decodes          *)
(* resp.Data into its result type.  A result is [k |-> "nil"] or [k, v].   *)
(***************************************************************************)
NilResult == [k |-> "nil"]
Outcome(result, err) == [result |-> result, err |-> err]
\* a plausible slip: SendRaw posts to SendMessage's path
EndpointPath_RawToMessage(op) ==
    CASE op \in {"SendMessage", "SendRaw"} -> "/send/message"
      [] op = "GetMessage"                 -> "/messages/message"
      [] op = "GetMessageDeliveries"       -> "/messages/deliveries"

EndpointPath(op) ==
    CASE op = "SendMessage"          -> "/send/message"
      [] op = "SendRaw"              -> "/send/raw"
      [] op = "GetMessage"           -> "/messages/message"
      [] op = "GetMessageDeliveries" -> "/messages/deliveries"
\* a plausible slip: the error of json.Unmarshal(resp.Data, &sendResp) is dropped
SendFinish_IgnoreDecodeError(r) ==
    IF r.err.k # "nil" THEN Outcome(NilResult, r.err)
    ELSE Outcome([k |-> "SendMessageResponse",
                  v |-> UnmarshalSendMessageResponse(r.resp.v.Data).v], NilError)

\* SendMessage and SendRaw after post returned r = [resp, err]
SendFinish(r) ==
    IF r.err.k # "nil" THEN Outcome(NilResult, r.err)
    ELSE LET u == UnmarshalSendMessageResponse(r.resp.v.Data)
         IN  IF ~u.ok
             THEN Outcome(NilResult,
                          Errorf("error unmarshaling send response", "json: cannot unmarshal"))
             ELSE Outcome([k |-> "SendMessageResponse", v |-> u.v], NilError)

\* a plausible slip: the message decoded so far is returned along with the error
GetMessageFinish_PartialResult(r) ==
    IF r.err.k # "nil" THEN Outcome(NilResult, r.err)
    ELSE LET u == UnmarshalMessage(r.resp.v.Data)
         IN  IF ~u.ok
             THEN Outcome([k |-> "Message", v |-> u.v],
                          Errorf("error unmarshaling response", "json: cannot unmarshal"))
             ELSE Outcome([k |-> "Message", v |-> u.v], NilError)

\* GetMessage after post returned
GetMessageFinish(r) ==
    IF r.err.k # "nil" THEN Outcome(NilResult, r.err)
    ELSE LET u == UnmarshalMessage(r.resp.v.Data)
         IN  IF ~u.ok
             THEN Outcome(NilResult,
                          Errorf("error unmarshaling response", "json: cannot unmarshal"))
             ELSE Outcome([k |-> "Message", v |-> u.v], NilError)

\* GetMessageDeliveries after post returned; the result is a slice, and a nil
\* slice is the nil result
GetMessageDeliveriesFinish(r) ==
    IF r.err.k # "nil" THEN Outcome(NilResult, r.err)
    ELSE LET u == UnmarshalDeliveries(r.resp.v.Data)
         IN  IF ~u.ok
             THEN Outcome(NilResult,
                          Errorf("error unmarshaling response", "json: cannot unmarshal"))
             ELSE Outcome(IF u.v.isNil THEN NilResult
                          ELSE [k |-> "Deliveries", v |-> u.v.elems], NilError)

\* post called directly (as the package's own tests do) returns do's pair
PostFinish(r) == Outcome(r.resp, r.err)

Finish(op, r) ==
    CASE op \in {"SendMessage", "SendRaw"} -> SendFinish(r)
      [] op = "GetMessage"                 -> GetMessageFinish(r)
      [] op = "GetMessageDeliveries"       -> GetMessageDeliveriesFinish(r)
      [] OTHER                             -> PostFinish(r)

(***************************************************************************)
(* Inputs: what callers pass and what a server may answer.                 *)
(***************************************************************************)
Callers == {"c1", "c2"}
APIKeys == {"test-api-key", "other-api-key"}
BaseURLs == {DefaultBaseURL, "https://custom.example.com/api/v1", InvalidBaseURL}
\* HTTPClient.Timeout in seconds; 0 means no timeout
Timeouts == {0, DefaultTimeout, 60}

\* an *http.Client: its Timeout and its Transport ("mock" is a RoundTripper that
\* always fails, "default" the real network)
HTTPClient(timeout, transport) == [Timeout |-> timeout, Transport |-> transport]
HTTPClients ==
    {HTTPClient(t, "default") : t \in Timeouts} \cup {HTTPClient(0, "mock")}

SendMessageRequest(to, cc, from, sender, subject, plain, bounce) ==
    [To |-> to, CC |-> cc, BCC |-> NilSlice, From |-> from, Sender |-> sender,
     Subject |-> subject, Tag |-> "", ReplyTo |-> "", PlainBody |-> plain,
     HTMLBody |-> "", Attachments |-> NilSlice, Headers |-> NilSlice,
     Bounce |-> bounce]
SendMessageRequests ==
    {SendMessageRequest(Slice(<<"recipient@example.com">>), NilSlice, "test@example.com",
                        "", "Test Subject", "Test Body", FALSE),
     SendMessageRequest(NilSlice, Slice(<<>>), "", "s@example.com", "", "", TRUE),
     SendMessageRequest(Slice(<<>>), Slice(<<"cc@example.com">>), "test@example.com",
                        "", "Test Subject", "", FALSE)}

SendRawRequest(from, to, data, bounce) ==
    [MailFrom |-> from, RcptTo |-> to, Data |-> data, Bounce |-> bounce]
SendRawRequests ==
    {SendRawRequest("test@example.com", Slice(<<"recipient@example.com">>),
                    "base64-encoded-data", FALSE)}

MessageIDs == {0, 123}

\* a call of the client: the operation, the path it posts to and its body
Invocation(op, path, body) == [op |-> op, path |-> path, body |-> body]
Invocations ==
    {Invocation("SendMessage", EndpointPath("SendMessage"), BodyArg("send", r)) :
        r \in SendMessageRequests} \cup
    {Invocation("SendMessage", EndpointPath("SendMessage"), BodyArg("nilptr", 0))} \cup
    {Invocation("SendRaw", EndpointPath("SendRaw"), BodyArg("raw", r)) :
        r \in SendRawRequests} \cup
    {Invocation("GetMessage", EndpointPath("GetMessage"), BodyArg("id", id)) :
        id \in MessageIDs} \cup
    {Invocation("GetMessageDeliveries", EndpointPath("GetMessageDeliveries"),
                BodyArg("id", id)) : id \in MessageIDs} \cup
    {Invocation("post", "/test", b) :
        b \in {NilBody, BodyArg("map", "data"), BodyArg("chan", 0)}}

\* HTTP status codes a server answers with
StatusCodes == {200, 201, 404, 500}

\* elements of a deliveries array
DeliveryElems ==
    {Elem("obj", Fields(Absent, JNum(123), Absent, JStr("delivered"), JBool(TRUE))),
     Elem("obj", Fields(Absent, JNum(124), Absent, JStr("failed"), JBool(FALSE))),
     Elem("obj", Fields(Absent, JStr("x"), Absent, JStr("delivered"), Absent))}
SeqsUpTo(S, n) == UNION {[1..m -> S] : m \in 0..n}

\* "data" members
Payloads ==
    {NoData, NullData, StringData,
     ObjectData(Fields(JNum(123), JNum(123), JStr("test-token"), Absent, Absent)),
     ObjectData(Fields(JNum(7), JNum(8), JStr("t"), JObject, Absent)),
     ObjectData(Fields(JStr("123"), JFrac(1500), JStr("t"), JStr("held"), Absent)),
     ObjectData(NoFields)} \cup
    {ArrayData(a) : a \in SeqsUpTo(DeliveryElems, MaxDeliveries)}

\* response bodies
SuccessBodies ==
    {Body("object", JStr("success"), JFrac(123), JObject, d, Absent, Absent) :
        d \in Payloads}
ErrorBodies ==
    {Body("object", JStr("error"), JFrac(123), JObject, ObjectData(NoFields),
          JStr("test-error"), JStr("Test error message")),
     Body("object", JStr("parameter-error"), JFrac(123), JObject, ObjectData(NoFields),
          JStr("validation-error"), JStr("The provided data was not sufficient")),
     Body("object", JStr("error"), JNum(1), JNull, NullData, JStr("test-error"),
          JNum(5)),
     Body("object", JStr("Success"), JFrac(123), JObject,
          ObjectData(Fields(JNum(123), JNum(123), JStr("test-token"), Absent, Absent)),
          Absent, Absent),
     Body("object", JStr(""), Absent, Absent, NullData, Absent, JStr("m")),
     Body("object", Absent, Absent, Absent, NoData, Absent, Absent),
     Body("object", JNum(1), JFrac(123), JObject, NullData, Absent, Absent)}
MalformedBodies ==
    {Body("invalid", JStr("success"), JFrac(123), JObject, StringData, Absent, Absent),
     Body("invalid", JStr("error"), JFrac(123), JObject, StringData, Absent, Absent),
     Body("invalid", Absent, Absent, Absent, NoData, Absent, Absent),
     Body("null", Absent, Absent, Absent, NoData, Absent, Absent),
     Body("array", Absent, Absent, Absent, NoData, Absent, Absent)}
ServerBodies == SuccessBodies \cup ErrorBodies \cup MalformedBodies

(***************************************************************************)
(* State.  client is the Client struct.  calls[c] is caller c's call of    *)
(* the client:                                                             *)
(*   pc        "idle", "do" (inside HTTPClient.Do, nothing sent yet),      *)
(*             "await" (request sent, waiting for the response), "read"    *)
(*             (status line received, reading the body), "done" (returned) *)
(*   op, path, body   the invocation                                       *)
(*   req       the *http.Request built                                     *)
(*   http      the HTTPClient the call uses                                *)
(*   sent      the requests written to the network, in order               *)
(*   code, respBody   the response's status code and body                  *)
(*   ioErr     which transport step failed: "none", "do", "read"           *)
(*   closes    calls of resp.Body.Close; closeErr: whether Close failed    *)
(*   result, err      what the call returned                               *)
(*   errText          the text of err as the caller prints it              *)
(* earlier is what the callers have seen so far: the kinds of error ("nil",*)
(* "generic", "api") the calls they recorded returned.                     *)
(***************************************************************************)
NoBody == Body("invalid", Absent, Absent, Absent, NoData, Absent, Absent)

IdleCall ==
    [pc |-> "idle", op |-> "none", path |-> "", body |-> NilBody, req |-> NoRequest,
     http |-> HTTPClient(0, "default"), sent |-> <<>>, code |-> 0, respBody |-> NoBody,
     ioErr |-> "none", closes |-> 0, closeErr |-> FALSE,
     result |-> NilResult, err |-> NilError, errText |-> ""]

\* NewClient(apiKey)
NewClient(apiKey) ==
    [BaseURL |-> DefaultBaseURL, APIKey |-> apiKey,
     HTTPClient |-> HTTPClient(DefaultTimeout, "default")]

\* a plausible change: a timeout of zero is taken to mean the default one
NewClientWithOptions_ZeroMeansDefault(apiKey, baseURL, timeout) ==
    [BaseURL |-> baseURL, APIKey |-> apiKey,
     HTTPClient |-> HTTPClient(IF timeout = 0 THEN DefaultTimeout ELSE timeout, "default")]

\* NewClientWithOptions(apiKey, baseURL, timeout)
NewClientWithOptions(apiKey, baseURL, timeout) ==
    [BaseURL |-> baseURL, APIKey |-> apiKey,
     HTTPClient |-> HTTPClient(timeout, "default")]

Init ==
    /\ client \in {NewClient(k) : k \in APIKeys} \cup
                  {NewClientWithOptions(k, u, t) :
                      k \in APIKeys, u \in BaseURLs, t \in Timeouts}
    /\ calls = [c \in Callers |-> IdleCall]
    /\ earlier = {}

\* the callers use the client one call at a time
NoCallInFlight == \A c \in Callers : calls[c].pc = "idle"

\* the caller assigns the exported field: client.BaseURL = u
SetBaseURL(u) ==
    /\ NoCallInFlight
    /\ client.BaseURL # u
    /\ client' = [client EXCEPT !.BaseURL = u]
    /\ UNCHANGED <<calls, earlier>>

\* the caller assigns the exported field: client.HTTPClient = h
SetHTTPClient(h) ==
    /\ NoCallInFlight
    /\ client.HTTPClient # h
    /\ client' = [client EXCEPT !.HTTPClient = h]
    /\ UNCHANGED <<calls, earlier>>

\* err.Error(), which a caller's log.Fatalf("...: %v", err) prints
ErrorMessage(err) ==
    IF err.k = "api" THEN ErrorString(err)
    ELSE IF err.k = "generic" THEN err.text ELSE ""

\* a call returns to its caller, who formats a non-nil error
Returned(call, out) ==
    [call EXCEPT !.pc = "done", !.result = out.result, !.err = out.err,
                 !.errText = ErrorMessage(out.err)]

\* a plausible change: a base URL that http.NewRequest rejects is replaced by
\* the default one for the calls to come
Start_ResetsBaseURL(c, inv) ==
    /\ calls[c].pc = "idle"
    /\ LET p    == doPrepare(client, MethodPost, inv.path, inv.body)
           call == [IdleCall EXCEPT !.op = inv.op, !.path = inv.path, !.body = inv.body,
                                    !.http = client.HTTPClient]
       IN  /\ calls' = [calls EXCEPT ![c] =
                  IF p.err.k # "nil"
                  THEN Returned(call, Finish(inv.op, [resp |-> NilResponse, err |-> p.err]))
                  ELSE [call EXCEPT !.pc = "do", !.req = p.req]]
           /\ client' = IF p.err.k # "nil" /\ Marshal(inv.body).ok
                        THEN [client EXCEPT !.BaseURL = DefaultBaseURL]
                        ELSE client
    /\ UNCHANGED earlier

\* a plausible slip: the error of http.NewRequest is looked at only after the
\* round trip, so the request is handed to the HTTP client first
Start_SendsBeforeCheckingRequest(c, inv) ==
    /\ calls[c].pc = "idle"
    /\ LET p    == doPrepare(client, MethodPost, inv.path, inv.body)
           call == [IdleCall EXCEPT !.op = inv.op, !.path = inv.path, !.body = inv.body,
                                    !.http = client.HTTPClient]
       IN  calls' = [calls EXCEPT ![c] =
                IF p.err.k # "nil"
                THEN Returned([call EXCEPT !.sent = IF Marshal(inv.body).ok
                                                    THEN <<p.req>> ELSE <<>>],
                              Finish(inv.op, [resp |-> NilResponse, err |-> p.err]))
                ELSE [call EXCEPT !.pc = "do", !.req = p.req]]
    /\ UNCHANGED <<client, earlier>>

\* a plausible slip: the client remembers that a call failed and fails the
\* calls after it without trying
Start_FailsAfterFailure(c, inv) ==
    /\ calls[c].pc = "idle"
    /\ LET p    == doPrepare(client, MethodPost, inv.path, inv.body)
           call == [IdleCall EXCEPT !.op = inv.op, !.path = inv.path, !.body = inv.body,
                                    !.http = client.HTTPClient]
       IN  calls' = [calls EXCEPT ![c] =
                IF "generic" \in earlier
                THEN Returned(call, Finish(inv.op, [resp |-> NilResponse,
                         err |-> Errorf("error performing request", "client is broken")]))
                ELSE IF p.err.k # "nil"
                THEN Returned(call, Finish(inv.op, [resp |-> NilResponse, err |-> p.err]))
                ELSE [call EXCEPT !.pc = "do", !.req = p.req]]
    /\ UNCHANGED <<client, earlier>>

\* the caller calls an endpoint method (or post): the method builds its body and
\* path, and do runs up to c.HTTPClient.Do; a marshal or NewRequest failure
\* returns at once
Start(c, inv) ==
    /\ calls[c].pc = "idle"
    /\ LET p    == doPrepare(client, MethodPost, inv.path, inv.body)
           call == [IdleCall EXCEPT !.op = inv.op, !.path = inv.path, !.body = inv.body,
                                    !.http = client.HTTPClient]
       IN  calls' = [calls EXCEPT ![c] =
                IF p.err.k # "nil"
                THEN Returned(call, Finish(inv.op, [resp |-> NilResponse, err |-> p.err]))
                ELSE [call EXCEPT !.pc = "do", !.req = p.req]]
    /\ UNCHANGED <<client, earlier>>

\* a call made while no other call is in flight
Invoke(c, inv) == NoCallInFlight /\ Start(c, inv)

\* a plausible slip: the request is kept in a field of the shared Client, where a
\* call that overlaps has put its own
Transmit_SharedRequest(c) ==
    /\ calls[c].pc = "do"
    /\ calls[c].http.Transport = "default"
    /\ LET others == {d \in Callers \ {c} : calls[d].pc \in {"do", "await", "read"}}
           req    == IF others = {} THEN calls[c].req
                     ELSE calls[CHOOSE d \in others : TRUE].req
       IN  calls' = [calls EXCEPT ![c].pc = "await",
                                  ![c].sent = Append(calls[c].sent, req)]
    /\ UNCHANGED <<client, earlier>>

\* the transport writes the request to the network
Transmit(c) ==
    /\ calls[c].pc = "do"
    /\ calls[c].http.Transport = "default"
    /\ calls' = [calls EXCEPT ![c].pc = "await",
                              ![c].sent = Append(calls[c].sent, calls[c].req)]
    /\ UNCHANGED <<client, earlier>>
\* a plausible change: a failed round trip is tried again
doSendFailed_Retry(call, cause) == [call EXCEPT !.pc = "do"]

\* do's return when c.HTTPClient.Do failed
doSendFailed(call, cause) ==
    Returned([call EXCEPT !.ioErr = "do"],
             Finish(call.op, [resp |-> NilResponse,
                              err |-> Errorf("error performing request", cause)]))

\* HTTPClient.Do returns an error: the RoundTripper fails before sending, or the
\* connection breaks while waiting for the response
TransportError(c) ==
    /\ calls[c].pc \in {"do", "await"}
    /\ calls' = [calls EXCEPT ![c] = doSendFailed(calls[c], "transport error")]
    /\ UNCHANGED <<client, earlier>>

\* the server's status line and headers arrive; the body it will send is b
ReceiveResponse(c, code, b) ==
    /\ calls[c].pc = "await"
    /\ calls' = [calls EXCEPT ![c].pc = "read", ![c].code = code, ![c].respBody = b]
    /\ UNCHANGED <<client, earlier>>
\* a plausible slip: the error of io.ReadAll is dropped and the bytes read so
\* far are parsed
doRead_SwallowReadError(call, readOK, closeErr) ==
    Returned([call EXCEPT !.closes = call.closes + 1, !.closeErr = closeErr,
                          !.ioErr = IF readOK THEN "none" ELSE "read"],
             Finish(call.op, doParse(call.code, call.respBody)))

\* do from io.ReadAll to its return, with the deferred resp.Body.Close
doRead(call, readOK, closeErr) ==
    LET closed == [call EXCEPT !.closes = call.closes + 1, !.closeErr = closeErr]
    IN  IF ~readOK
        THEN Returned([closed EXCEPT !.ioErr = "read"],
                      Finish(call.op, [resp |-> NilResponse,
                                       err |-> Errorf("error reading response body",
                                                      "unexpected EOF")]))
        ELSE Returned(closed, Finish(call.op, doParse(call.code, call.respBody)))

\* io.ReadAll returns the whole body; do parses it and the method decodes data
ReadBody(c, closeErr) ==
    /\ calls[c].pc = "read"
    /\ calls' = [calls EXCEPT ![c] = doRead(calls[c], TRUE, closeErr)]
    /\ UNCHANGED <<client, earlier>>

\* io.ReadAll fails (the connection breaks mid-body)
ReadError(c, closeErr) ==
    /\ calls[c].pc = "read"
    /\ calls' = [calls EXCEPT ![c] = doRead(calls[c], FALSE, closeErr)]
    /\ UNCHANGED <<client, earlier>>

\* a plausible slip: the deadline bounds only the wait for the response's
\* headers (as Transport.ResponseHeaderTimeout does), not the reading of the body
Timeout_HeadersOnly(c) ==
    /\ calls[c].pc \in {"do", "await"}
    /\ calls[c].http.Timeout > 0
    /\ calls' = [calls EXCEPT ![c] =
            doSendFailed(calls[c], "context deadline exceeded")]
    /\ UNCHANGED <<client, earlier>>

\* HTTPClient.Timeout passes; it covers connecting, waiting for the headers and
\* reading the body: Do fails before the body is reached, the read fails after
Timeout(c) ==
    /\ calls[c].pc \in {"do", "await", "read"}
    /\ calls[c].http.Timeout > 0
    /\ calls' = [calls EXCEPT ![c] =
            IF calls[c].pc \in {"do", "await"}
            THEN doSendFailed(calls[c], "context deadline exceeded")
            ELSE doRead(calls[c], FALSE, FALSE)]
    /\ UNCHANGED <<client, earlier>>

\* the caller is done with the returned values
Return(c) ==
    /\ calls[c].pc = "done"
    /\ calls' = [calls EXCEPT ![c] = IdleCall]
    /\ UNCHANGED <<client, earlier>>

\* the caller is done with the returned values and remembers how the call ended
Record(c) ==
    /\ calls[c].pc = "done"
    /\ calls' = [calls EXCEPT ![c] = IdleCall]
    /\ earlier' = earlier \cup {calls[c].err.k}
    /\ UNCHANGED client

Next ==
    \/ \E u \in BaseURLs : SetBaseURL(u)
    \/ \E h \in HTTPClients : SetHTTPClient(h)
    \/ \E c \in Callers, inv \in Invocations : Invoke(c, inv)
    \/ \E c \in Callers : Transmit(c)
    \/ \E c \in Callers : TransportError(c)
    \/ \E c \in Callers, code \in StatusCodes, b \in ServerBodies :
          ReceiveResponse(c, code, b)
    \/ \E c \in Callers, closeErr \in BOOLEAN : ReadBody(c, closeErr)
    \/ \E c \in Callers, closeErr \in BOOLEAN : ReadError(c, closeErr)
    \/ \E c \in Callers : Timeout(c)
    \/ \E c \in Callers : Return(c)

Spec == Init /\ [][Next]_vars

(***************************************************************************)
(* Further specifications of the same client, over fewer inputs: a caller  *)
(* who remembers how its earlier calls ended, callers who overlap, a       *)
(* server that may stay silent, and the constructors as steps.             *)
(***************************************************************************)
FewInvocations ==
    {Invocation("SendMessage", EndpointPath("SendMessage"),
                BodyArg("send", SendMessageRequest(Slice(<<"recipient@example.com">>),
                    NilSlice, "test@example.com", "", "Test Subject", "Test Body", FALSE))),
     Invocation("GetMessage", EndpointPath("GetMessage"), BodyArg("id", 123)),
     Invocation("post", "/test", BodyArg("chan", 0))}
FewCodes == {200, 500}
FewBodies ==
    {Body("object", JStr("success"), JFrac(123), JObject,
          ObjectData(Fields(JNum(123), JNum(123), JStr("test-token"), Absent, Absent)),
          Absent, Absent),
     Body("object", JStr("error"), JFrac(123), JObject, ObjectData(NoFields),
          JStr("test-error"), JStr("Test error message")),
     Body("invalid", Absent, Absent, Absent, NoData, Absent, Absent)}

\* what the transport, the server and the clock do to caller c's call
Progress(c) ==
    \/ Transmit(c)
    \/ TransportError(c)
    \/ \E code \in FewCodes, b \in FewBodies : ReceiveResponse(c, code, b)
    \/ \E closeErr \in BOOLEAN : ReadBody(c, closeErr)
    \/ \E closeErr \in BOOLEAN : ReadError(c, closeErr)
    \/ Timeout(c)

\* one caller after another, each remembering how its call ended
InitSeq ==
    /\ client \in {NewClient(k) : k \in APIKeys}
    /\ calls = [c \in Callers |-> IdleCall]
    /\ earlier = {}
NextSeq ==
    \/ \E u \in BaseURLs : SetBaseURL(u)
    \/ \E h \in HTTPClients : SetHTTPClient(h)
    \/ \E c \in Callers, inv \in FewInvocations : Invoke(c, inv)
    \/ \E c \in Callers : Progress(c)
    \/ \E c \in Callers : Record(c)
SpecSeq == InitSeq /\ [][NextSeq]_vars

\* callers sharing the client without waiting for each other
InitConc ==
    /\ client \in {NewClient(k) : k \in APIKeys}
    /\ calls = [c \in Callers |-> IdleCall]
    /\ earlier = {}
NextConc ==
    \/ \E c \in Callers, inv \in FewInvocations : Start(c, inv)
    \/ \E c \in Callers : Progress(c)
    \/ \E c \in Callers : Return(c)
SpecConc == InitConc /\ [][NextConc]_vars

\* a server that is free never to answer; only the client's own timer is sure
\* to act, when it is set
InitLive ==
    /\ client \in {NewClient("test-api-key")} \cup
                  {NewClientWithOptions("test-api-key", DefaultBaseURL, t) : t \in Timeouts}
    /\ calls = [c \in Callers |-> IdleCall]
    /\ earlier = {}
NextLive ==
    \/ \E c \in Callers, inv \in FewInvocations : Invoke(c, inv)
    \/ \E c \in Callers : Progress(c)
    \/ \E c \in Callers : Return(c)
SpecLive == InitLive /\ [][NextLive]_vars /\ \A c \in Callers : WF_vars(Timeout(c))

\* the constructors as steps: before them there is no client
Unconstructed == [BaseURL |-> "", APIKey |-> "", HTTPClient |-> HTTPClient(0, "none")]
CallNewClient(apiKey) ==
    /\ client = Unconstructed
    /\ client' = NewClient(apiKey)
    /\ UNCHANGED <<calls, earlier>>
CallNewClientWithOptions(apiKey, baseURL, timeout) ==
    /\ client = Unconstructed
    /\ client' = NewClientWithOptions(apiKey, baseURL, timeout)
    /\ UNCHANGED <<calls, earlier>>
InitNew ==
    /\ client = Unconstructed
    /\ calls = [c \in Callers |-> IdleCall]
    /\ earlier = {}
NextNew ==
    \/ \E k \in APIKeys : CallNewClient(k)
    \/ \E k \in APIKeys, u \in BaseURLs, t \in Timeouts : CallNewClientWithOptions(k, u, t)
    \/ /\ client # Unconstructed
       /\ \/ \E c \in Callers, inv \in FewInvocations : Invoke(c, inv)
          \/ \E c \in Callers : Progress(c)
          \/ \E c \in Callers : Return(c)
SpecNew == InitNew /\ [][NextNew]_vars

(***************************************************************************)
(* Vocabulary of the properties.                                           *)
(***************************************************************************)
Endpoints == {"SendMessage", "SendRaw", "GetMessage", "GetMessageDeliveries"}
Done(c) == calls[c].pc = "done"
\* the call received a response and read its body in full
GotResponse(c) == Done(c) /\ calls[c].ioErr = "none" /\ calls[c].closes = 1
Is2xx(code) == code >= 200 /\ code < 300

\* what a JSON member holds, read as the Go field would hold it
IntOf(v) == IF v.k = "num" THEN v.n ELSE 0
StringOf(v) == IF v.k = "str" THEN v.s ELSE ""
IsInt(v) == v.k \in {"num", "absent", "null"}
IsString(v) == v.k \in {"str", "absent", "null"}
IsNumber(v) == v.k \in {"num", "frac", "absent", "null"}
IsBool(v) == v.k \in {"bool", "absent", "null"}

\* the body is a JSON object whose envelope members have their JSON types
WellFormedEnvelope(b) ==
    b.syn = "object" /\ IsString(b.status) /\ IsNumber(b.time) /\
    IsString(b.error_code) /\ IsString(b.message)
\* the body is an envelope saying status "success"
SuccessEnvelope(b) == WellFormedEnvelope(b) /\ b.status = JStr("success")
\* the body is an envelope saying another status (or none)
ErrorEnvelope(b) == WellFormedEnvelope(b) /\ b.status # JStr("success")

\* data is valid JSON for the operation's response type
ValidSendData(d) == d.k = "obj" /\ IsInt(d.f.message_id) /\ IsString(d.f.token)
ValidMessageData(d) ==
    d.k = "obj" /\ IsInt(d.f.id) /\ IsString(d.f.token) /\
    d.f.status.k \in {"obj", "absent", "null"}
ValidDeliveryElem(e) ==
    e.k = "obj" /\ IsInt(e.f.id) /\ IsString(e.f.status) /\ IsBool(e.f.sent_with_ssl)
ValidDeliveriesData(d) ==
    d.k = "arr" /\ \A i \in 1..Len(d.a) : ValidDeliveryElem(d.a[i])
ValidData(op, d) ==
    CASE op \in {"SendMessage", "SendRaw"} -> ValidSendData(d)
      [] op = "GetMessage"                 -> ValidMessageData(d)
      [] op = "GetMessageDeliveries"       -> ValidDeliveriesData(d)
      [] OTHER                             -> FALSE

\* the typed result holds the values of data
ResultMatches(op, res, d) ==
    CASE op \in {"SendMessage", "SendRaw"} ->
            /\ res.k = "SendMessageResponse"
            /\ res.v.MessageID = IntOf(d.f.message_id)
            /\ res.v.Token = StringOf(d.f.token)
      [] op = "GetMessage" ->
            /\ res.k = "Message"
            /\ res.v.ID = IntOf(d.f.id)
            /\ res.v.Token = StringOf(d.f.token)
      [] op = "GetMessageDeliveries" ->
            /\ res.k = "Deliveries"
            /\ Len(res.v) = Len(d.a)
            /\ \A i \in 1..Len(d.a) :
                  /\ res.v[i].ID = IntOf(d.a[i].f.id)
                  /\ res.v[i].Status = StringOf(d.a[i].f.status)
                  /\ res.v[i].SentWithSSL = (d.a[i].f.sent_with_ssl = JBool(TRUE))
      [] OTHER -> FALSE

(***************************************************************************)
(* C1.  For each of SendMessage, SendRaw, GetMessage and                   *)
(* GetMessageDeliveries: when the server answers HTTP 200 with an envelope *)
(* whose status is "success" and whose data is valid JSON for the          *)
(* operation's response type, the call returns a nil error and a typed     *)
(* result whose fields equal the values in data.                           *)
(***************************************************************************)
C1_SuccessYieldsTypedResult ==
    \A c \in Callers :
        (/\ GotResponse(c)
         /\ calls[c].op \in Endpoints
         /\ calls[c].code = 200
         /\ SuccessEnvelope(calls[c].respBody)
         /\ ValidData(calls[c].op, calls[c].respBody.data))
        => /\ calls[c].err.k = "nil"
           /\ ResultMatches(calls[c].op, calls[c].result, calls[c].respBody.data)

\* SendMessage answered 200 with data {message_id: 123, token: "test-token"}
\* returned MessageID 123 and Token "test-token"
C1_Witness ==
    \E c \in Callers :
        /\ GotResponse(c)
        /\ calls[c].op = "SendMessage"
        /\ calls[c].code = 200
        /\ SuccessEnvelope(calls[c].respBody)
        /\ calls[c].respBody.data.k = "obj"
        /\ calls[c].respBody.data.f.message_id = JNum(123)
        /\ calls[c].respBody.data.f.token = JStr("test-token")
        /\ calls[c].err.k = "nil"
        /\ calls[c].result.k = "SendMessageResponse"
        /\ calls[c].result.v = SendMessageResponse(123, "test-token")

(***************************************************************************)
(* C2.  As claimed: for every response whose HTTP status is outside 2xx,   *)
(* whatever its body, the call returns a *Error whose Message equals the   *)
(* message member of the response envelope; never a generic error, never a *)
(* success.                                                                *)
(***************************************************************************)
C2_Original_Non2xxAlwaysAPIError ==
    \A c \in Callers :
        (GotResponse(c) /\ ~Is2xx(calls[c].code))
        => /\ calls[c].err.k = "api"
           /\ calls[c].err.Message = StringOf(calls[c].respBody.message)

(***************************************************************************)
(* C2, amended.  For every response whose HTTP status is outside 2xx and   *)
(* whose body was read in full: the call never returns a success; when the *)
(* body decodes as an error envelope (the JSON null, or an object whose    *)
(* status, time, error_code and message have their JSON types) the call    *)
(* returns a *Error whose Message equals the envelope's message member,    *)
(* and when it does not the call returns a generic error.                  *)
(***************************************************************************)
C2_Non2xxIsError ==
    \A c \in Callers :
        (GotResponse(c) /\ ~Is2xx(calls[c].code))
        => /\ calls[c].result.k = "nil"
           /\ IF WellFormedEnvelope(calls[c].respBody) \/ calls[c].respBody.syn = "null"
              THEN /\ calls[c].err.k = "api"
                   /\ calls[c].err.Message = StringOf(calls[c].respBody.message)
              ELSE calls[c].err.k = "generic"

\* a 500 answer with an error envelope came back as a *Error with its message
C2_Witness ==
    \E c \in Callers :
        /\ GotResponse(c)
        /\ calls[c].code = 500
        /\ calls[c].respBody.message = JStr("Test error message")
        /\ calls[c].err.k = "api"
        /\ calls[c].err.Message = "Test error message"

(***************************************************************************)
(* C3.  For every response with a 2xx HTTP status whose envelope status    *)
(* member is anything other than "success", the call returns a *Error      *)
(* carrying the envelope's status, error_code and message, and never a     *)
(* success result.  (An envelope is a JSON object whose status,            *)
(* error_code and message are strings or missing.)                         *)
(***************************************************************************)
C3_NonSuccessEnvelopeIsAPIError ==
    \A c \in Callers :
        (GotResponse(c) /\ Is2xx(calls[c].code) /\ ErrorEnvelope(calls[c].respBody))
        => /\ calls[c].result.k = "nil"
           /\ calls[c].err.k = "api"
           /\ calls[c].err.Status = StringOf(calls[c].respBody.status)
           /\ calls[c].err.ErrorCode = StringOf(calls[c].respBody.error_code)
           /\ calls[c].err.Message = StringOf(calls[c].respBody.message)

\* a 200 answer saying "parameter-error" came back as a *Error
C3_Witness ==
    \E c \in Callers :
        /\ GotResponse(c)
        /\ calls[c].code = 200
        /\ calls[c].respBody.status = JStr("parameter-error")
        /\ calls[c].err.k = "api"
        /\ calls[c].err.Status = "parameter-error"
        /\ calls[c].err.ErrorCode = "validation-error"

(***************************************************************************)
(* C4.  As claimed: a response with ANY 2xx status (200, 201, 204, ...)    *)
(* and envelope status "success" is a full success of the transport        *)
(* wrapper, which returns the envelope with no error; only non-2xx         *)
(* statuses are HTTP-status failures.                                      *)
(***************************************************************************)
C4_Any2xxSuccessIsSuccess ==
    \A c \in Callers :
        (/\ GotResponse(c)
         /\ calls[c].op = "post"
         /\ Is2xx(calls[c].code)
         /\ SuccessEnvelope(calls[c].respBody))
        => /\ calls[c].err.k = "nil"
           /\ calls[c].result.k = "Response"
           /\ calls[c].result.v.Status = "success"

\* data of a success envelope the operation cannot decode: the member is
\* missing, of another JSON kind, or holds a member of the wrong type
UndecodableData(op, d) ==
    d.k # "null" /\ ~ValidData(op, d)

(***************************************************************************)
(* C5.  For each of the four endpoint methods: when the envelope has       *)
(* status "success" but its data payload is malformed (the body is not     *)
(* valid JSON) or not decodable into the operation's response type, the    *)
(* call returns a non-nil parsing error (not a *Error) and a nil result.   *)
(***************************************************************************)
C5_BadDataIsParsingError ==
    \A c \in Callers :
        (/\ GotResponse(c)
         /\ calls[c].op \in Endpoints
         /\ calls[c].code = 200
         /\ \/ /\ calls[c].respBody.syn = "invalid"
               /\ calls[c].respBody.status = JStr("success")
            \/ /\ SuccessEnvelope(calls[c].respBody)
               /\ UndecodableData(calls[c].op, calls[c].respBody.data))
        => /\ calls[c].err.k = "generic"
           /\ calls[c].result.k = "nil"

\* SendMessage got a success envelope whose data has message_id as a string
C5_Witness ==
    \E c \in Callers :
        /\ GotResponse(c)
        /\ calls[c].op = "SendMessage"
        /\ calls[c].code = 200
        /\ SuccessEnvelope(calls[c].respBody)
        /\ calls[c].respBody.data.k = "obj"
        /\ calls[c].respBody.data.f.message_id.k = "str"
        /\ calls[c].err.k = "generic"
        /\ calls[c].result.k = "nil"

\* the server answered with an API error: a body that decodes as an error
\* envelope, under a non-2xx status or saying a status other than "success"
AnsweredAPIError(c) ==
    /\ GotResponse(c)
    /\ WellFormedEnvelope(calls[c].respBody) \/ calls[c].respBody.syn = "null"
    /\ ~Is2xx(calls[c].code) \/ calls[c].respBody.status # JStr("success")

(***************************************************************************)
(* C6.  As claimed: an error returned by any of the four endpoint methods  *)
(* is a *Error, with Status and Message taken from the server's envelope,  *)
(* exactly when the server answered with an API error envelope; every      *)
(* local, network or parsing failure is an error that is not a *Error.     *)
(***************************************************************************)
C6_APIErrorExactlyWhenServerSaysSo ==
    \A c \in Callers :
        (Done(c) /\ calls[c].op \in Endpoints)
        => /\ calls[c].err.k = "api" <=> AnsweredAPIError(c)
           /\ calls[c].err.k = "api" =>
                 /\ calls[c].err.Status = StringOf(calls[c].respBody.status)
                 /\ calls[c].err.Message = StringOf(calls[c].respBody.message)

(***************************************************************************)
(* C7.  Every HTTP request issued by any operation of the client carries   *)
(* the headers Content-Type: application/json, Accept: application/json    *)
(* and X-Server-API-Key equal to the client's APIKey, including requests   *)
(* that have no body.                                                      *)
(***************************************************************************)
C7_EveryRequestCarriesHeaders ==
    \A c \in Callers : \A i \in 1..Len(calls[c].sent) :
        /\ calls[c].sent[i].Header.ContentType = "application/json"
        /\ calls[c].sent[i].Header.Accept = "application/json"
        /\ calls[c].sent[i].Header.XServerAPIKey = client.APIKey

\* a request without a body is on the wire, with the client's key
C7_Witness ==
    \E c \in Callers :
        /\ Len(calls[c].sent) = 1
        /\ calls[c].sent[1].Body.k = "none"
        /\ calls[c].sent[1].Header.XServerAPIKey = client.APIKey
        /\ client.APIKey = "other-api-key"

\* the fixed path of each public operation, as the documentation gives it
PathOf(op) ==
    CASE op = "SendMessage"          -> "/send/message"
      [] op = "SendRaw"              -> "/send/raw"
      [] op = "GetMessage"           -> "/messages/message"
      [] op = "GetMessageDeliveries" -> "/messages/deliveries"

(***************************************************************************)
(* C8.  Each public operation issues its request with method POST to the   *)
(* client's base URL followed by its own fixed path; no operation targets  *)
(* another operation's path or uses another method.                        *)
(***************************************************************************)
C8_FixedPathAndMethod ==
    \A c \in Callers : \A i \in 1..Len(calls[c].sent) :
        calls[c].op \in Endpoints
        => /\ calls[c].sent[i].Method = "POST"
           /\ calls[c].sent[i].URL = client.BaseURL \o PathOf(calls[c].op)

\* a SendRaw request to a custom base URL is on the wire
C8_Witness ==
    \E c \in Callers :
        /\ calls[c].op = "SendRaw"
        /\ Len(calls[c].sent) = 1
        /\ calls[c].sent[1].Method = "POST"
        /\ calls[c].sent[1].URL = "https://custom.example.com/api/v1/send/raw"

(***************************************************************************)
(* C9.  There is no retry: one call of a public operation issues at most   *)
(* one HTTP request, whatever the outcome; after any failure the call      *)
(* returns the error without sending a second request.                     *)
(***************************************************************************)
C9_AtMostOneRequestPerCall ==
    \A c \in Callers :
        /\ Len(calls[c].sent) <= 1
        /\ (Done(c) /\ calls[c].err.k # "nil") => Len(calls[c].sent) <= 1

\* a call whose request was sent and whose round trip then failed has returned
\* the error, with one request sent
C9_Witness ==
    \E c \in Callers :
        /\ Done(c)
        /\ calls[c].ioErr = "do"
        /\ calls[c].err.k = "generic"
        /\ Len(calls[c].sent) = 1

\* the stages of a call that failed, closing the response body aside
MarshalFailed(c) == calls[c].body.k = "chan"
NewRequestFailed(c) == ~MarshalFailed(c) /\ client.BaseURL = InvalidBaseURL
SendFailed(c) == calls[c].ioErr = "do"
ReadFailed(c) == calls[c].ioErr = "read"
EnvelopeParseFailed(c) ==
    GotResponse(c) /\ ~(WellFormedEnvelope(calls[c].respBody) \/ calls[c].respBody.syn = "null")
APIErrorStatus(c) ==
    GotResponse(c) /\ (~Is2xx(calls[c].code) \/ calls[c].respBody.status # JStr("success"))
DataDecodeFailed(c) ==
    /\ GotResponse(c)
    /\ calls[c].op \in Endpoints
    /\ SuccessEnvelope(calls[c].respBody)
    /\ UndecodableData(calls[c].op, calls[c].respBody.data)
StageFailed(c) ==
    \/ MarshalFailed(c) \/ NewRequestFailed(c) \/ SendFailed(c) \/ ReadFailed(c)
    \/ EnvelopeParseFailed(c) \/ APIErrorStatus(c) \/ DataDecodeFailed(c)
CloseFailed(c) == calls[c].closeErr

(***************************************************************************)
(* C10.  As claimed: no error is swallowed; if any stage of a call fails   *)
(* (body serialization, request construction, sending, reading or closing  *)
(* the response body, envelope parsing, API error status, data decoding)   *)
(* the call returns a non-nil error, and a call that returns a nil error   *)
(* had no failure at any stage.                                            *)
(***************************************************************************)
C10_Original_NoErrorSwallowed ==
    \A c \in Callers :
        Done(c) => ((StageFailed(c) \/ CloseFailed(c)) => calls[c].err.k # "nil")

(***************************************************************************)
(* C10, amended.  If any stage of a call other than closing the response   *)
(* body fails (body serialization, request construction, sending, reading  *)
(* the response body, envelope parsing, API error status, data decoding)   *)
(* the call returns a non-nil error; the error of closing the response     *)
(* body is discarded.                                                      *)
(***************************************************************************)
C10_NoErrorSwallowedButClose ==
    \A c \in Callers :
        Done(c) => (StageFailed(c) => calls[c].err.k # "nil")

\* a call whose body read failed returned an error
C10_Witness ==
    \E c \in Callers :
        /\ Done(c)
        /\ ReadFailed(c)
        /\ calls[c].err.k = "generic"


(***************************************************************************)
(* Vocabulary of the properties about a call among other calls.            *)
(***************************************************************************)
InFlight(c) == calls[c].pc \in {"do", "await", "read"}
\* the reasons HTTPClient.Do fails for
RoundTripCauses == {"transport error", "context deadline exceeded"}
\* what a call returns when nothing but its own arguments, the configuration cl
\* and the events of its own round trip (call.ioErr, call.code, call.respBody)
\* are looked at: the outcomes a first call on a new client with that
\* configuration has
OwnOutcomes(call, cl) ==
    LET p == doPrepare(cl, MethodPost, call.path, call.body)
    IN  IF p.err.k # "nil"
        THEN {Finish(call.op, [resp |-> NilResponse, err |-> p.err])}
        ELSE IF call.ioErr = "do"
        THEN {Finish(call.op, [resp |-> NilResponse,
                               err |-> Errorf("error performing request", cause)]) :
                 cause \in RoundTripCauses}
        ELSE IF call.ioErr = "read"
        THEN {Finish(call.op, [resp |-> NilResponse,
                               err |-> Errorf("error reading response body",
                                              "unexpected EOF")])}
        ELSE {Finish(call.op, doParse(call.code, call.respBody))}
Failures == {"generic", "api"}

(***************************************************************************)
(* C11  Every call is stateless: whatever calls were made before it on the *)
(* same client and however they ended, a call returns what its own         *)
(* arguments, the client's configuration and the response to its own       *)
(* request determine; an earlier failure does not change a later result.   *)
(***************************************************************************)
C11_OutcomeFromOwnInputsOnly ==
    \A c \in Callers :
        Done(c) => Outcome(calls[c].result, calls[c].err) \in OwnOutcomes(calls[c], client)

\* a call succeeds after calls that failed in both ways
C11_Witness ==
    \E c \in Callers :
        /\ Done(c) /\ calls[c].op \in Endpoints
        /\ calls[c].err = NilError /\ calls[c].result # NilResult
        /\ Failures \subseteq earlier


(***************************************************************************)
(* C12  Several callers may use one Client at the same time without        *)
(* locking: however their calls interleave, each call sends only its own   *)
(* request, with its own path and body, and returns the outcome that the   *)
(* response to its own request determines; no call sees another call's     *)
(* request, response or error.                                             *)
(***************************************************************************)
C12_ConcurrentCallsAreIndependent ==
    \A c \in Callers :
        LET call == calls[c]
        IN  /\ \A i \in 1..Len(call.sent) :
                   /\ call.sent[i].URL = RequestURL(client.BaseURL, call.path)
                   /\ call.sent[i].Body = Marshal(call.body).json
            /\ Done(c) =>
                   Outcome(call.result, call.err) \in OwnOutcomes(call, client)

\* two calls of different operations overlap, each has sent its request, and one
\* has returned its result while the other gets an error envelope
C12_Witness ==
    \E c, d \in Callers :
        /\ c # d /\ calls[c].op # calls[d].op
        /\ Done(c) /\ calls[c].err = NilError /\ calls[c].result # NilResult
        /\ calls[d].pc = "read" /\ calls[d].code # StatusOK
        /\ Len(calls[c].sent) = 1 /\ Len(calls[d].sent) = 1


(***************************************************************************)
(* C13  No operation of the client changes the Client's BaseURL, APIKey or *)
(* HTTPClient: every step of a call, from its start to its return, on the  *)
(* success path and on every error path, leaves the configuration as it    *)
(* was before the call.                                                    *)
(***************************************************************************)
C13_CallsLeaveConfigurationAlone ==
    [][(\E c \in Callers : calls'[c] # calls[c]) =>
          /\ client'.BaseURL = client.BaseURL
          /\ client'.APIKey = client.APIKey
          /\ client'.HTTPClient = client.HTTPClient]_vars

\* a call has failed on the base URL it was given, and the client still has it
C13_Witness ==
    \E c \in Callers :
        /\ Done(c) /\ NewRequestFailed(c)
        /\ client.BaseURL = InvalidBaseURL
        /\ calls[c].http = client.HTTPClient


(***************************************************************************)
(* C14  Every call eventually returns to its caller, whatever timeout the  *)
(* client was constructed with: when the server never answers or never     *)
(* finishes the body, the call fails once the deadline passes.  As         *)
(* claimed, for every timeout value:                                       *)
(***************************************************************************)
C14_Original_EveryCallReturns ==
    \A c \in Callers : InFlight(c) ~> Done(c)

(***************************************************************************)
(* C14, amended: a call on a client whose timeout is positive eventually   *)
(* returns; a timeout of zero sets no deadline.                            *)
(***************************************************************************)
C14_CallWithPositiveTimeoutReturns ==
    \A c \in Callers : (InFlight(c) /\ calls[c].http.Timeout > 0) ~> Done(c)

\* the deadline ended a call whose request was sent and never answered
C14_Witness ==
    \E c \in Callers :
        /\ Done(c) /\ calls[c].http.Timeout > 0
        /\ calls[c].ioErr = "do" /\ Len(calls[c].sent) = 1
        /\ calls[c].result = NilResult
        /\ calls[c].err = Errorf("error performing request", "context deadline exceeded")


(***************************************************************************)
(* C15  Construction stores exactly what the caller gave: NewClient(k)     *)
(* yields APIKey k, BaseURL DefaultBaseURL and an HTTP timeout of          *)
(* DefaultTimeout, 30 seconds; NewClientWithOptions(k, u, t) yields APIKey *)
(* k, BaseURL u and HTTP timeout t, for all k, u, t, with no defaulting    *)
(* and no normalization of u or t.                                         *)
(***************************************************************************)
C15_ConstructionStoresItsArguments ==
    [][/\ \A k \in APIKeys :
              CallNewClient(k) =>
                  /\ client'.APIKey = k
                  /\ client'.BaseURL = DefaultBaseURL
                  /\ client'.HTTPClient.Timeout = DefaultTimeout
                  /\ DefaultTimeout = 30
       /\ \A k \in APIKeys, u \in BaseURLs, t \in Timeouts :
              CallNewClientWithOptions(k, u, t) =>
                  /\ client'.APIKey = k
                  /\ client'.BaseURL = u
                  /\ client'.HTTPClient.Timeout = t]_vars

\* a client constructed with a base URL no request can be made for and a
\* timeout of zero holds both as given
C15_Witness ==
    /\ client.APIKey = "other-api-key"
    /\ client.BaseURL = InvalidBaseURL
    /\ client.HTTPClient.Timeout = 0
    /\ \A c \in Callers : calls[c].pc = "idle"


(***************************************************************************)
(* Vocabulary of the properties about error texts.  A text is a stage      *)
(* phrase, ": " and the cause's own text, so a phrase is contained in it   *)
(* when the text is the phrase with one of the heads before it and one of  *)
(* the tails after it that the errors of the client have.                  *)
(***************************************************************************)
ErrorCauses ==
    {"json: unsupported type: chan int", "net/url: invalid control character in URL",
     "transport error", "context deadline exceeded", "unexpected EOF",
     "json: cannot unmarshal"}
TextHeads == {""}
TextTails == {""} \cup {": " \o cause : cause \in ErrorCauses}
Contains(text, phrase) ==
    \E head \in TextHeads, tail \in TextTails : text = head \o phrase \o tail
\* err is a generic error (not a *Error) whose text contains phrase
GenericErrorContaining(err, phrase) ==
    err.k = "generic" /\ Contains(err.text, phrase)

(***************************************************************************)
(* C16  Local failures are generic errors, not *Error, that name the       *)
(* failing stage: a body that cannot be serialized gives "error marshaling *)
(* request body", an unusable URL "error creating request", a failed HTTP  *)
(* round trip "error performing request"; the returned response is nil in  *)
(* each case.                                                              *)
(***************************************************************************)
C16_LocalFailuresNameTheirStage ==
    \A c \in Callers :
        Done(c) =>
            /\ MarshalFailed(c) =>
                   /\ GenericErrorContaining(calls[c].err, "error marshaling request body")
                   /\ calls[c].result = NilResult
            /\ NewRequestFailed(c) =>
                   /\ GenericErrorContaining(calls[c].err, "error creating request")
                   /\ calls[c].result = NilResult
            /\ SendFailed(c) =>
                   /\ GenericErrorContaining(calls[c].err, "error performing request")
                   /\ calls[c].result = NilResult

\* an endpoint method's round trip failed in the transport
C16_Witness ==
    \E c \in Callers :
        /\ Done(c) /\ SendFailed(c) /\ calls[c].op \in Endpoints
        /\ calls[c].http.Transport = "mock"
        /\ calls[c].err.k = "generic"


\* the text err.Error() gives
ErrorText(err) == IF err.k = "api" THEN ErrorString(err) ELSE err.text
\* the call was answered HTTP 200 with data that cannot become the operation's
\* response type: the whole body is not JSON, or the envelope says "success" and
\* its data is JSON of another shape
DataCannotBeDecoded(c) ==
    /\ GotResponse(c)
    /\ calls[c].op \in Endpoints
    /\ calls[c].code = StatusOK
    /\ \/ calls[c].respBody.syn = "invalid"
       \/ /\ SuccessEnvelope(calls[c].respBody)
          /\ UndecodableData(calls[c].op, calls[c].respBody.data)

(***************************************************************************)
(* C17  For all four endpoint methods: whenever the data of an HTTP 200    *)
(* response with status "success" cannot be decoded into the operation's   *)
(* response type, because the whole body is invalid JSON or because data   *)
(* is valid JSON of the wrong shape, the text of the returned error        *)
(* contains "error unmarshaling response".                                 *)
(***************************************************************************)
C17_DecodeFailureSaysUnmarshalingResponse ==
    \A c \in Callers :
        DataCannotBeDecoded(c) =>
            /\ calls[c].err # NilError
            /\ Contains(ErrorText(calls[c].err), "error unmarshaling response")


(***************************************************************************)
(* C18  When the HTTP status is not 200 and the response body cannot be    *)
(* decoded as an error envelope, the call returns a generic error, not a   *)
(* *Error, whose text contains "error unmarshaling error response".        *)
(***************************************************************************)
C18_UndecodableErrorBodyIsGenericError ==
    \A c \in Callers :
        (GotResponse(c) /\ calls[c].code # StatusOK /\ EnvelopeParseFailed(c)) =>
            GenericErrorContaining(calls[c].err, "error unmarshaling error response")

\* an endpoint method was answered 500 with a body that is not JSON
C18_Witness ==
    \E c \in Callers :
        /\ GotResponse(c) /\ calls[c].op \in Endpoints
        /\ calls[c].code = 500 /\ calls[c].respBody.syn = "invalid"
        /\ calls[c].err.k = "generic"

\* a float64 member in thousandths
ThousandthsOf(v) == IF v.k = "num" THEN 1000 * v.n ELSE IF v.k = "frac" THEN v.n ELSE 0
\* post (the transport wrapper) was answered HTTP 200 with a success envelope
WrapperSucceeded(c) ==
    /\ GotResponse(c) /\ calls[c].op = "post"
    /\ calls[c].code = StatusOK
    /\ SuccessEnvelope(calls[c].respBody)

(***************************************************************************)
(* C19  On full success the transport wrapper returns the envelope: Status *)
(* "success", the envelope's time and flags, and Data equal to the raw,    *)
(* undecoded JSON of the response's data member; it neither interprets nor *)
(* alters data.                                                            *)
(***************************************************************************)
C19_WrapperReturnsEnvelopeWithRawData ==
    \A c \in Callers :
        WrapperSucceeded(c) =>
            /\ calls[c].err = NilError
            /\ calls[c].result.k = "Response"
            /\ calls[c].result.v.Status = "success"
            /\ calls[c].result.v.Time = ThousandthsOf(calls[c].respBody.time)
            /\ calls[c].result.v.Flags = calls[c].respBody.flags
            /\ calls[c].result.v.Data = calls[c].respBody.data

\* the wrapper hands back a data member that is a JSON null as it came
C19_Witness ==
    \E c \in Callers :
        /\ WrapperSucceeded(c)
        /\ calls[c].respBody.data = NullData
        /\ calls[c].result.k = "Response"
        /\ calls[c].result.v.Data = NullData

(***************************************************************************)
(* C20  GetMessageDeliveries returns exactly one Delivery for each element *)
(* of the data array of a successful response, in the array's order, each  *)
(* holding its element's id, status and sent_with_ssl; an empty array      *)
(* gives an empty result and a nil error.                                  *)
(***************************************************************************)
C20_OneDeliveryPerElementInOrder ==
    \A c \in Callers :
        LET d == calls[c].respBody.data
        IN  (/\ GotResponse(c) /\ calls[c].op = "GetMessageDeliveries"
             /\ calls[c].code = StatusOK
             /\ SuccessEnvelope(calls[c].respBody)
             /\ ValidDeliveriesData(d)) =>
                /\ calls[c].err = NilError
                /\ calls[c].result.k = "Deliveries"
                /\ DOMAIN calls[c].result.v = DOMAIN d.a
                /\ \A i \in DOMAIN d.a :
                       calls[c].result.v[i] =
                           Delivery(IntOf(d.a[i].f.id), StringOf(d.a[i].f.status),
                                    d.a[i].f.sent_with_ssl = JBool(TRUE))
                /\ d.a = <<>> => calls[c].result.v = <<>>

\* two different deliveries came back in the order the server listed them
C20_Witness ==
    \E c \in Callers :
        /\ GotResponse(c) /\ calls[c].op = "GetMessageDeliveries"
        /\ calls[c].err = NilError /\ calls[c].result.k = "Deliveries"
        /\ Len(calls[c].result.v) = MaxDeliveries
        /\ calls[c].result.v[1].ID = 123 /\ calls[c].result.v[2].ID = 124


(***************************************************************************)
(* C21  Error.Error() returns exactly "postal API error: " + Status +      *)
(* " - " + Message, for every Status and Message, an empty Message         *)
(* included; ErrorCode, Data, Time and Flags are no part of the text.      *)
(***************************************************************************)
C21_ErrorTextIsStatusAndMessage ==
    \A c \in Callers :
        (Done(c) /\ calls[c].err.k = "api") =>
            LET e == calls[c].err
            IN  /\ calls[c].errText = "postal API error: " \o e.Status \o " - " \o e.Message
                /\ (e.Status = "error" /\ e.Message = "Test error message") =>
                       calls[c].errText = "postal API error: error - Test error message"
                /\ (e.Status = "Success" /\ e.Message = "") =>
                       calls[c].errText = "postal API error: Success - "

\* a *Error with an empty message was formatted
C21_Witness ==
    \E c \in Callers :
        /\ Done(c) /\ calls[c].err.k = "api"
        /\ calls[c].err.Status = "Success" /\ calls[c].err.Message = ""
        /\ calls[c].errText = "postal API error: Success - "


\* two lists with the same elements in the same order
SameElements(a, b) == a.elems = b.elems
\* the JSON object has the key exactly when the field is not empty
WrittenIff(j, key, nonEmpty) == HasMember(j, key) <=> nonEmpty

(***************************************************************************)
(* C22  The request body the server receives for SendMessage and SendRaw   *)
(* decodes back to the caller's request: decoding the sent JSON into the   *)
(* request type gives equal From and To (MailFrom, RcptTo, Data) and equal *)
(* values for every other field, and an optional field is left out of the  *)
(* JSON exactly when it is empty.  An optional list is equal when it has   *)
(* the same elements: an empty one is left out and decodes as the nil one. *)
(***************************************************************************)
C22_SentBodyDecodesToTheRequest ==
    \A c \in Callers : \A i \in 1..Len(calls[c].sent) :
        LET j == calls[c].sent[i].Body
            r == calls[c].body.v
        IN  /\ calls[c].body.k = "send" =>
                LET d == UnmarshalSendMessageRequest(j)
                IN  /\ d.To = r.To /\ d.From = r.From /\ d.Subject = r.Subject
                    /\ SameElements(d.CC, r.CC) /\ SameElements(d.BCC, r.BCC)
                    /\ SameElements(d.Attachments, r.Attachments)
                    /\ SameElements(d.Headers, r.Headers)
                    /\ d.Sender = r.Sender /\ d.Tag = r.Tag /\ d.ReplyTo = r.ReplyTo
                    /\ d.PlainBody = r.PlainBody /\ d.HTMLBody = r.HTMLBody
                    /\ d.Bounce = r.Bounce
                    /\ {"to", "from", "subject"} \subseteq DOMAIN j.m
                    /\ WrittenIff(j, "cc", r.CC.elems # <<>>)
                    /\ WrittenIff(j, "bcc", r.BCC.elems # <<>>)
                    /\ WrittenIff(j, "sender", r.Sender # "")
                    /\ WrittenIff(j, "tag", r.Tag # "")
                    /\ WrittenIff(j, "reply_to", r.ReplyTo # "")
                    /\ WrittenIff(j, "plain_body", r.PlainBody # "")
                    /\ WrittenIff(j, "html_body", r.HTMLBody # "")
                    /\ WrittenIff(j, "attachments", r.Attachments.elems # <<>>)
                    /\ WrittenIff(j, "headers", r.Headers.elems # <<>>)
                    /\ WrittenIff(j, "bounce", r.Bounce)
            /\ calls[c].body.k = "raw" =>
                /\ UnmarshalSendRawRequest(j) = r
                /\ {"mail_from", "rcpt_to", "data"} \subseteq DOMAIN j.m
                /\ WrittenIff(j, "bounce", r.Bounce)

\* a request whose list of carbon copies is empty, though not nil, was sent with
\* the list left out, next to the members a sender and a bounce flag give
C22_Witness ==
    \E c \in Callers :
        /\ calls[c].op = "SendMessage" /\ calls[c].body.k = "send"
        /\ Len(calls[c].sent) = 1
        /\ calls[c].body.v.CC = Slice(<<>>)
        /\ ~HasMember(calls[c].sent[1].Body, "cc")
        /\ HasMember(calls[c].sent[1].Body, "sender")
        /\ HasMember(calls[c].sent[1].Body, "bounce")


(***************************************************************************)
(* C23  The client reads BaseURL, APIKey and HTTPClient at the time of     *)
(* each call: once the caller has assigned a new BaseURL or HTTPClient to  *)
(* an existing Client, every call made after that goes to the new base URL *)
(* through the new HTTP client; none uses the value given at construction. *)
(***************************************************************************)
C23_CallsUseTheCurrentFields ==
    \A c \in Callers :
        calls[c].pc # "idle" =>
            /\ calls[c].http = client.HTTPClient
            /\ calls[c].req # NoRequest =>
                   /\ calls[c].req.URL = client.BaseURL \o calls[c].path
                   /\ calls[c].req.Header.XServerAPIKey = client.APIKey
            /\ \A i \in 1..Len(calls[c].sent) :
                   calls[c].sent[i].URL = client.BaseURL \o calls[c].path
            /\ (client.BaseURL # DefaultBaseURL /\ calls[c].req # NoRequest) =>
                   calls[c].req.URL # DefaultBaseURL \o calls[c].path
            /\ calls[c].http.Transport = "mock" => calls[c].sent = <<>>
            /\ (client.BaseURL = InvalidBaseURL /\ Marshal(calls[c].body).ok) =>
                   Done(c) /\ calls[c].sent = <<>>

\* on a client made by NewClient and then given another base URL and another
\* HTTP client, a request went to the new base URL under the new timeout
C23_Witness ==
    \E c \in Callers :
        /\ Len(calls[c].sent) = 1
        /\ calls[c].sent[1].URL = "https://custom.example.com/api/v1" \o calls[c].path
        /\ calls[c].http.Timeout = 60
        /\ client.BaseURL # DefaultBaseURL


(***************************************************************************)
(* C24  The envelope is parsed before its status member is looked at: an   *)
(* HTTP 200 response whose body is not valid JSON gives a generic error    *)
(* containing "error unmarshaling response", not a *Error, also when the   *)
(* readable beginning of the body says status "error".                     *)
(***************************************************************************)
C24_InvalidBodyAt200IsResponseParseError ==
    \A c \in Callers :
        (GotResponse(c) /\ calls[c].code = StatusOK /\ calls[c].respBody.syn = "invalid") =>
            /\ GenericErrorContaining(calls[c].err, "error unmarshaling response")
            /\ ~GenericErrorContaining(calls[c].err, "error unmarshaling error response")

\* a 200 body that breaks off after saying status "error"
C24_Witness ==
    \E c \in Callers :
        /\ GotResponse(c) /\ calls[c].code = StatusOK
        /\ calls[c].respBody.syn = "invalid"
        /\ calls[c].respBody.status = JStr("error")
        /\ calls[c].err.k = "generic"

C26_LocalFailureSendsNothing ==
    \A c \in Callers :
        /\ (Done(c) /\ (MarshalFailed(c) \/ NewRequestFailed(c))) =>
               /\ calls[c].sent = <<>>
               /\ calls[c].ioErr = "none" /\ calls[c].closes = 0
               /\ calls[c].err # NilError
        /\ InFlight(c) => ~(MarshalFailed(c) \/ NewRequestFailed(c))

\* a call with a sound body failed on the base URL and sent nothing
C26_Witness ==
    \E c \in Callers :
        /\ Done(c) /\ NewRequestFailed(c) /\ calls[c].body.k = "send"
        /\ calls[c].sent = <<>>
        /\ calls[c].err.k = "generic"


(***************************************************************************)
(* C27  Outcomes are exclusive, for every operation and every server       *)
(* response: whenever the returned error is non-nil the returned result is *)
(* nil, and whenever SendMessage, SendRaw, GetMessage or the transport     *)
(* wrapper returns a nil error, the result pointer it returns is not nil.  *)
(***************************************************************************)
C27_ErrorXorResult ==
    \A c \in Callers :
        Done(c) =>
            /\ calls[c].err.k # "nil" => calls[c].result.k = "nil"
            /\ (calls[c].err.k = "nil" /\
                calls[c].op \in {"SendMessage", "SendRaw", "GetMessage", "post"}) =>
                   calls[c].result.k # "nil"

\* GetMessage was answered a success whose data has a mistyped member, and
\* returned the error alone
C27_Witness ==
    \E c \in Callers :
        /\ GotResponse(c) /\ calls[c].op = "GetMessage" /\ calls[c].code = StatusOK
        /\ SuccessEnvelope(calls[c].respBody)
        /\ calls[c].respBody.data.k = "obj"
        /\ calls[c].err.k = "generic" /\ calls[c].result.k = "nil"

(***************************************************************************)
(* C28  Success requires the exact status string "success": an HTTP 200    *)
(* response whose envelope has no status member, an empty status or any    *)
(* other spelling, such as "Success", is returned as a *Error carrying     *)
(* that status, never as a success.                                        *)
(***************************************************************************)
C28_OnlyExactSuccessSucceeds ==
    \A c \in Callers :
        (GotResponse(c) /\ calls[c].code = StatusOK /\ ErrorEnvelope(calls[c].respBody)) =>
            /\ calls[c].err.k = "api"
            /\ calls[c].err.Status = StringOf(calls[c].respBody.status)
            /\ calls[c].err.Status # "success"
            /\ calls[c].result.k = "nil"

\* a 200 answer saying "Success", with valid data, came back as a *Error
C28_Witness ==
    \E c \in Callers :
        /\ GotResponse(c) /\ calls[c].code = StatusOK
        /\ calls[c].respBody.status = JStr("Success")
        /\ calls[c].err.k = "api" /\ calls[c].err.Status = "Success"

(***************************************************************************)
(* C29  An HTTP 200 response with status "success" and no data member at   *)
(* all makes each of the four endpoint methods return a decoding error and *)
(* a nil result, not an empty or zero-valued success.                      *)
(***************************************************************************)
C29_MissingDataIsDecodingError ==
    \A c \in Callers :
        (/\ GotResponse(c) /\ calls[c].op \in Endpoints
         /\ calls[c].code = StatusOK
         /\ SuccessEnvelope(calls[c].respBody)
         /\ calls[c].respBody.data.k = "absent") =>
            /\ calls[c].err.k = "generic"
            /\ calls[c].result.k = "nil"

\* SendMessage got a success envelope without data
C29_Witness ==
    \E c \in Callers :
        /\ GotResponse(c) /\ calls[c].op = "SendMessage" /\ calls[c].code = StatusOK
        /\ SuccessEnvelope(calls[c].respBody)
        /\ calls[c].respBody.data.k = "absent"
        /\ calls[c].err.k = "generic"


\* the same client with another API key
WithAPIKey(cl, k) == [cl EXCEPT !.APIKey = k]

(***************************************************************************)
(* C30  The API key reaches a request only through the X-Server-API-Key    *)
(* header: for two clients that differ only in APIKey and get the same     *)
(* server responses, the request's URL, method and body and the returned   *)
(* result or error text are the same; the key is no part of the URL, the   *)
(* body or an error message.                                               *)
(***************************************************************************)
C30_APIKeyOnlyInItsHeader ==
    \A c \in Callers : \A k \in APIKeys :
        calls[c].pc # "idle" =>
            LET call  == calls[c]
                other == doPrepare(WithAPIKey(client, k), MethodPost, call.path, call.body)
            IN  /\ (call.req = NoRequest) <=> (other.req = NoRequest)
                /\ call.req # NoRequest =>
                       /\ call.req.Header.XServerAPIKey = client.APIKey
                       /\ other.req.Header.XServerAPIKey = k
                       /\ other.req.URL = call.req.URL
                       /\ other.req.Method = call.req.Method
                       /\ other.req.Body = call.req.Body
                       /\ other.req.Header.ContentType = call.req.Header.ContentType
                       /\ other.req.Header.Accept = call.req.Header.Accept
                       /\ \A i \in 1..Len(call.sent) :
                              /\ call.sent[i].URL = other.req.URL
                              /\ call.sent[i].Body = other.req.Body
                /\ Done(c) =>
                       /\ Outcome(call.result, call.err) \in
                              OwnOutcomes(call, WithAPIKey(client, k))
                       /\ \E out \in OwnOutcomes(call, WithAPIKey(client, k)) :
                              ErrorMessage(out.err) = call.errText

\* a call under the second key was sent and ended with an API error's text
C30_Witness ==
    \E c \in Callers :
        /\ Done(c) /\ client.APIKey = "other-api-key"
        /\ Len(calls[c].sent) = 1
        /\ calls[c].sent[1].Header.XServerAPIKey = "other-api-key"
        /\ calls[c].err.k = "api" /\ calls[c].errText # ""

====
